---- MODULE Spec2Model ----
(***************************************************************************)
(* Service-request lifecycle and live tracking of the OneHive backend.     *)
(*                                                                         *)
(* The model covers routes/service.js (src/unnamed/part_007),              *)
(* routes/tracking.js (src/unnamed/part_005), POST /api/reviews            *)
(* (src/backend/routes/review.js) and the worker and request listings      *)
(* (src/backend/README.md) over the ServiceRequest, Worker, Tracking and    *)
(* Review collections.  Every route handler is one action; PUT /:id/accept *)
(* is split at its awaits (findById, findOne, save, save) so that two      *)
(* Accept calls can interleave.                                            *)
(*                                                                         *)
(* The account routes of routes/auth.js (src/unnamed/part_006), the review *)
(* routes, worker registration, deletion and application status            *)
(* (src/backend/README.md) and utils/helpers calculateDistance             *)
(* (src/unnamed/part_003) have specifications of their own.                *)
(*                                                                         *)
(* Every handler runs its checks before its first write.  The HTTP status  *)
(* it answers with is therefore a function of the stored state and the     *)
(* request, given by the operators XxxCode; a call that is refused writes  *)
(* nothing and is a stuttering step.  resp keeps the last success          *)
(* response.  The one handler that writes and then answers with an error,  *)
(* POST /api/auth/forgot-password (src/unnamed/part_006), records that     *)
(* answer in resp as well.                                                 *)
(*                                                                         *)
(* Conventions: 0 stands for an unset Date or Number field (ratings are    *)
(* validated to be >= 1), NoWorker for an unset worker reference.          *)
(*  Free-text fields that no handler reads (title,       *)
(* description, addresses, images, estimatedCost) are left out.            *)
(***************************************************************************)
EXTENDS Integers, Sequences, FiniteSets, TLC

\* ---------------------------------------------------------------- bounds
MaxRequests == 1
MaxTrackings == 2
MaxStamp == 1
MaxAccepted == 2
MaxEnded == 1
MaxHistory == 1
MaxReviews == 2
MaxMoves == 2
MaxWorkers == 3
MaxAge == 3

\* ------------------------------------------------------------- identities
\* Users known to the auth layer, with the role stored on the User record.
\* wk1 and wk2 own the Worker profiles W1 and W2; wk0 registered with the
\* role worker and has no Worker profile.
Users == {"cust", "wk0", "wk1", "wk2", "adm"}

role(u) ==
    CASE u = "cust" -> "customer"
      [] u = "wk0" -> "worker"
      [] u = "wk1" -> "worker"
      [] u = "wk2" -> "worker"
      [] u = "adm" -> "admin"

\* The user whose service requests are followed (customer: req.user._id).
Creators == {"cust"}

WorkerIds == {"W1", "W2"}
NoWorker == "none"
NoUser == "none"

\* Coordinates sent by clients; Origin is the schema default [0, 0],
\* NoCoords an absent `coordinates` field in the body.
Origin == <<0, 0>>
Place == <<77, 12>>
NoCoords == <<>>

\* Request-body values.
RatingInputs == {0, 1, 5, 6}
NoText == ""
ReviewInputs == {NoText, "good"}
ReasonInputs == {NoText, "busy"}
ReviewTypes == {"customer_to_worker", "worker_to_customer"}
TrackingStatuses == {"en_route", "arrived", "working", "completed"}

\* Processes that can have an Accept call in flight.
Procs == {1, 2}

VARIABLES
    requests,   \* ServiceRequest collection, _id = index
    workers,    \* Worker collection, keyed by _id
    trackings,  \* Tracking collection in insertion order, _id = index
    reviews,    \* Review collection in insertion order
    calls,      \* Accept calls in flight, per process
    resp,       \* the last success response sent
    okAccepts,  \* per request, the callers of Accept answered with success, in order
    accounts    \* User collection: the credentials kept per email

vars == <<requests, workers, trackings, reviews, calls, resp, okAccepts, accounts>>

\* ----------------------------------------------------------------- helpers
RequestIds == 1..MaxRequests

Exists(r) == r \in 1..Len(requests)

TExists(t) == t \in 1..Len(trackings)

\* Worker.findOne({ user: req.user._id })
FindWorkerByUser(u) ==
    IF \E w \in DOMAIN workers : workers[w].user = u
    THEN CHOOSE w \in DOMAIN workers : workers[w].user = u
    ELSE NoWorker

\* middleware authorize(...roles)
authorize(u, roles) == role(u) \in roles

\* new Date() written to a Date field: a time the field did not hold before.
\* Date fields are compared for change only, so a field holds the number of
\* times it was written (0 = never).
NewDate(old) == old + 1

\* bounds on the number of writes the model follows per Date field
CanStamp(old) == old < MaxStamp

CanAccept(old) == old < MaxAccepted

CanEnd(old) == old < MaxEnded

\* a success envelope: the route, the caller, the :id (or serviceRequestId)
\* and, for rate, the reviewType of the body
Response(op, u, id, code, arg) ==
    [op |-> op, user |-> u, id |-> id, code |-> code, arg |-> arg]

NoArg == ""

Idle == [phase |-> "idle", user |-> NoUser, req |-> 0, wid |-> NoWorker, jobs |-> 0]

\* Math.round(avg * 10) / 10, kept in tenths
RoundTenths(sum, count) == (20 * sum + count) \div (2 * count)

RECURSIVE SumRatings(_, _)
SumRatings(s, w) ==
    IF s = <<>> THEN 0
    ELSE (IF Head(s).worker = w /\ Head(s).isActive THEN Head(s).rating ELSE 0)
         + SumRatings(Tail(s), w)

RECURSIVE CountRatings(_, _)
CountRatings(s, w) ==
    IF s = <<>> THEN 0
    ELSE (IF Head(s).worker = w /\ Head(s).isActive THEN 1 ELSE 0)
         + CountRatings(Tail(s), w)

\* Review.updateRating(targetId, 'worker') applied to a review collection
updateRating(ws, revs, w) ==
    IF CountRatings(revs, w) > 0 /\ w \in DOMAIN ws
    THEN [ws EXCEPT ![w].rating =
            [average |-> RoundTenths(SumRatings(revs, w), CountRatings(revs, w)),
             count |-> CountRatings(revs, w)]]
    ELSE ws

\* Values of the credentials: generateOTP() and generateResetToken() draw
\* from OtpValues and TokenValues; NoOtp and NoToken stand for unset fields.
NoOtp == ""
NoToken == ""
OtpValues == {"123456", "654321"}
TokenValues == {"tokenA", "tokenB"}
Passwords == {"pw", "pw2"}

\* a User document as User.create leaves it
\* otpAge stands for otpExpires: the time since send-otp set it to now + 10
\* minutes, in steps of five minutes.  issued and verified are history that
\* no handler reads: the OTP that send-otp issued last and that has not been
\* verified since, and whether a verify-otp has ever succeeded.
Account(password, r) ==
    [password |-> password, role |-> r, otp |-> NoOtp, otpAge |-> 0,
     resetPasswordToken |-> NoToken, issued |-> NoOtp, verified |-> FALSE]

\* ------------------------------------------------------------------- Init
Init ==
    /\ requests = <<>>
    /\ workers = [w \in WorkerIds |->
                    [user |-> IF w = "W1" THEN "wk1" ELSE "wk2",
                     completedJobs |-> 0,
                     location |-> Origin,
                     rating |-> [average |-> 0, count |-> 0]]]
    /\ trackings = <<>>
    /\ reviews = <<>>
    /\ calls = [p \in Procs |-> Idle]
    /\ resp = Response("none", NoUser, 0, 0, NoArg)
    /\ okAccepts = [r \in RequestIds |-> <<>>]
    /\ accounts = [e \in Users |-> Account("pw", role(e))]

\* ------------------------------------------------- routes/service.js
\* POST /api/services
Create(u, loc) ==
    /\ Len(requests) < MaxRequests
    /\ requests' = Append(requests,
          [customer |-> u,
           worker |-> NoWorker,
           location |-> IF loc = NoCoords THEN Origin ELSE loc,
           status |-> "pending",
           acceptedAt |-> 0, startedAt |-> 0, completedAt |-> 0, cancelledAt |-> 0,
           cancellationReason |-> NoText,
           customerRating |-> 0, customerReview |-> NoText,
           workerRating |-> 0, workerReview |-> NoText])
    /\ resp' = Response("create", u, Len(requests) + 1, 201, NoArg)
    /\ UNCHANGED <<accounts, workers, trackings, reviews, calls, okAccepts>>

\* A refused call answers with its error code and writes nothing.
Refused == UNCHANGED vars

\* PUT /api/services/:id/accept up to its first await: authorize('worker'),
\* ServiceRequest.findById and the status check on the document read.
AcceptCode(u, r) ==
    IF ~authorize(u, {"worker"}) THEN 403
    ELSE IF ~Exists(r) THEN 404
    ELSE IF requests[r].status # "pending" THEN 400
    ELSE 200

AcceptFind(p, u, r) ==
    /\ calls[p].phase = "idle"
    /\ \A q \in Procs : q < p => calls[q].phase # "idle"
    /\ IF AcceptCode(u, r) # 200 THEN Refused
       ELSE /\ calls' = [calls EXCEPT ![p] =
                            [phase |-> "found", user |-> u, req |-> r,
                             wid |-> NoWorker, jobs |-> 0]]
            /\ UNCHANGED <<accounts, requests, workers, trackings, reviews, resp, okAccepts>>

\* second await: Worker.findOne({ user }); 404 without a Worker profile
AcceptFindWorker(p) ==
    /\ calls[p].phase = "found"
    /\ LET w == FindWorkerByUser(calls[p].user) IN
       IF w = NoWorker
       THEN /\ calls' = [calls EXCEPT ![p] = Idle]
            /\ UNCHANGED <<accounts, requests, workers, trackings, reviews, resp, okAccepts>>
       ELSE /\ calls' = [calls EXCEPT ![p].phase = "worker", ![p].wid = w,
                                      ![p].jobs = workers[w].completedJobs]
            /\ UNCHANGED <<accounts, requests, workers, trackings, reviews, resp, okAccepts>>

\* third await: serviceRequest.save() writes the three modified paths
AcceptSave(p) ==
    /\ calls[p].phase = "worker"
    /\ CanAccept(requests[calls[p].req].acceptedAt)
    /\ requests' = [requests EXCEPT ![calls[p].req] =
                       [@ EXCEPT !.worker = calls[p].wid,
                                 !.status = "accepted",
                                 !.acceptedAt = NewDate(@)]]
    /\ calls' = [calls EXCEPT ![p].phase = "saved"]
    /\ UNCHANGED <<accounts, workers, trackings, reviews, resp, okAccepts>>

\* fourth await: worker.completedJobs += 1; worker.save(); then the response
AcceptSaveWorker(p) ==
    /\ calls[p].phase = "saved"
    /\ workers' = [workers EXCEPT ![calls[p].wid].completedJobs = calls[p].jobs + 1]
    /\ resp' = Response("accept", calls[p].user, calls[p].req, 200, NoArg)
    /\ okAccepts' = [okAccepts EXCEPT ![calls[p].req] = Append(@, calls[p].user)]
    /\ calls' = [calls EXCEPT ![p] = Idle]
    /\ UNCHANGED <<accounts, requests, trackings, reviews>>

\* PUT /api/services/:id/reject: the two identity tests
isWorker(u, sr) == sr.worker # NoWorker /\ sr.worker = u

isCustomer(u, sr) == sr.customer = u

\* the authorization test of reject
RejectForbidden(u, sr) ==
    ~isWorker(u, sr) /\ ~isCustomer(u, sr) /\ role(u) # "admin"

RejectCode(u, r) ==
    IF ~Exists(r) THEN 404
    ELSE IF RejectForbidden(u, requests[r]) THEN 403
    ELSE 200

RejectedReopens(u, sr, reason) ==
    [sr EXCEPT !.status = "pending", !.cancelledAt = NewDate(@)]

\* the writes of reject on the document read
Rejected(u, sr, reason) ==
    [sr EXCEPT
       !.status = IF isWorker(u, sr) THEN "rejected"
                  ELSE IF isCustomer(u, sr) THEN "cancelled"
                  ELSE @,
       !.cancellationReason =
                  IF isWorker(u, sr)
                  THEN (IF reason = NoText THEN "Rejected by worker" ELSE reason)
                  ELSE IF isCustomer(u, sr)
                  THEN (IF reason = NoText THEN "Cancelled by customer" ELSE reason)
                  ELSE @,
       !.cancelledAt = NewDate(@)]

\* PUT /api/services/:id/reject
Reject(u, r, reason) ==
    IF RejectCode(u, r) # 200 THEN Refused
    ELSE /\ CanStamp(requests[r].cancelledAt)
         /\ requests' = [requests EXCEPT ![r] = Rejected(u, @, reason)]
         /\ resp' = Response("reject", u, r, 200, NoArg)
         /\ UNCHANGED <<accounts, workers, trackings, reviews, calls, okAccepts>>

\* Tracking.create of PUT /:id/start: the schema defaults give isLive = true
\* and an empty locationHistory.
StartTracking(r, w) ==
    [serviceRequest |-> r,
     worker |-> w,
     customer |-> requests[r].customer,
     currentLocation |-> workers[w].location,
     destination |-> requests[r].location,
     status |-> "en_route",
     isLive |-> TRUE,
     locationHistory |-> <<>>,
     endedAt |-> 0]

\* the "Verify worker" test of start and complete; serviceRequest.worker
\* .toString() throws on a request without a worker (500)
VerifyWorkerCode(u, sr) ==
    IF FindWorkerByUser(u) = NoWorker THEN 403
    ELSE IF sr.worker = NoWorker THEN 500
    ELSE IF sr.worker # FindWorkerByUser(u) THEN 403
    ELSE 200

CanStartWhileRunning(sr) == sr.status \in {"accepted", "in_progress"}

\* the state test of start
CanStart(sr) == sr.status = "accepted"

StartCode(u, r) ==
    IF ~authorize(u, {"worker"}) THEN 403
    ELSE IF ~Exists(r) THEN 404
    ELSE IF VerifyWorkerCode(u, requests[r]) # 200 THEN VerifyWorkerCode(u, requests[r])
    ELSE IF ~CanStart(requests[r]) THEN 400
    ELSE 200

\* PUT /api/services/:id/start
Start(u, r) ==
    IF StartCode(u, r) # 200 THEN Refused
    ELSE /\ CanStamp(requests[r].startedAt)
         /\ Len(trackings) < MaxTrackings
         /\ requests' = [requests EXCEPT ![r] =
                            [@ EXCEPT !.status = "in_progress",
                                      !.startedAt = NewDate(@)]]
         /\ trackings' = Append(trackings, StartTracking(r, FindWorkerByUser(u)))
         /\ resp' = Response("start", u, r, 200, NoArg)
         /\ UNCHANGED <<accounts, workers, reviews, calls, okAccepts>>

\* The same handler split at its two writes.  serviceRequest.save():
StartSave(p, u, r) ==
    /\ calls[p].phase = "idle"
    /\ IF StartCode(u, r) # 200 THEN Refused
       ELSE /\ CanStamp(requests[r].startedAt)
            /\ requests' = [requests EXCEPT ![r] =
                               [@ EXCEPT !.status = "in_progress",
                                         !.startedAt = NewDate(@)]]
            /\ calls' = [calls EXCEPT ![p] =
                            [phase |-> "started", user |-> u, req |-> r,
                             wid |-> FindWorkerByUser(u), jobs |-> 0]]
            /\ UNCHANGED <<accounts, workers, trackings, reviews, resp, okAccepts>>

\* Tracking.create and the response; when the create is rejected the error
\* handler answers and the saved request stays as it is
StartCreate(p, created) ==
    /\ calls[p].phase = "started"
    /\ calls' = [calls EXCEPT ![p] = Idle]
    /\ IF created
       THEN /\ Len(trackings) < MaxTrackings
            /\ trackings' = Append(trackings, StartTracking(calls[p].req, calls[p].wid))
            /\ resp' = Response("start", calls[p].user, calls[p].req, 200, NoArg)
            /\ UNCHANGED <<accounts, requests, workers, reviews, okAccepts>>
       ELSE UNCHANGED <<accounts, requests, workers, trackings, reviews, resp, okAccepts>>

\* Tracking.findOneAndUpdate({ serviceRequest }, ...): the first matching
\* document in insertion order, whatever its isLive; 0 when there is none
FindOneByRequest(ts, r) ==
    IF \E t \in 1..Len(ts) : ts[t].serviceRequest = r
    THEN CHOOSE t \in 1..Len(ts) :
            /\ ts[t].serviceRequest = r
            /\ \A t2 \in 1..Len(ts) : ts[t2].serviceRequest = r => t <= t2
    ELSE 0

EndTrackingStatusOnly(ts, t) ==
    IF t = 0 THEN ts
    ELSE [ts EXCEPT ![t] = [@ EXCEPT !.status = "completed",
                                     !.endedAt = NewDate(@)]]

\* { isLive: false, status: 'completed', endedAt: new Date() }
EndTracking(ts, t) ==
    IF t = 0 THEN ts
    ELSE [ts EXCEPT ![t] = [@ EXCEPT !.isLive = FALSE,
                                     !.status = "completed",
                                     !.endedAt = NewDate(@)]]

CompleteCode(u, r) ==
    IF ~authorize(u, {"worker"}) THEN 403
    ELSE IF ~Exists(r) THEN 404
    ELSE IF VerifyWorkerCode(u, requests[r]) # 200 THEN VerifyWorkerCode(u, requests[r])
    ELSE IF requests[r].status # "in_progress" THEN 400
    ELSE 200

\* PUT /api/services/:id/complete
Complete(u, r) ==
    IF CompleteCode(u, r) # 200 THEN Refused
    ELSE /\ CanStamp(requests[r].completedAt)
         /\ FindOneByRequest(trackings, r) # 0 =>
                CanEnd(trackings[FindOneByRequest(trackings, r)].endedAt)
         /\ requests' = [requests EXCEPT ![r] =
                            [@ EXCEPT !.status = "completed",
                                      !.completedAt = NewDate(@)]]
         /\ trackings' = EndTracking(trackings, FindOneByRequest(trackings, r))
         /\ resp' = Response("complete", u, r, 200, NoArg)
         /\ UNCHANGED <<accounts, workers, reviews, calls, okAccepts>>

\* the "Check if already rated" test of rate
AlreadyRated(sr, reviewType) == sr.customerRating # 0

\* the schema validators of Review.rating (required, min 1, max 5)
ValidRating(rating) == rating >= 1 /\ rating <= 5

\* the branch of rate that writes
RatesWorker(u, sr, reviewType) ==
    isCustomer(u, sr) /\ reviewType = "customer_to_worker"

\* Worker.findById(...).user throws without the Worker (500); Review.create
\* throws on an invalid rating (500), before serviceRequest.save()
RateCode(u, r, rating, reviewType) ==
    IF ~Exists(r) THEN 404
    ELSE IF requests[r].status # "completed" THEN 400
    ELSE IF AlreadyRated(requests[r], reviewType) THEN 400
    ELSE IF ~RatesWorker(u, requests[r], reviewType) THEN 200
    ELSE IF requests[r].worker \notin DOMAIN workers THEN 500
    ELSE IF ~ValidRating(rating) THEN 500
    ELSE 200

\* PUT /api/services/:id/rate
Rate(u, r, rating, review, reviewType) ==
    IF RateCode(u, r, rating, reviewType) # 200 THEN Refused
    ELSE IF RatesWorker(u, requests[r], reviewType)
    THEN LET w == requests[r].worker
             revs == Append(reviews,
                       [serviceRequest |-> r, reviewer |-> u,
                        reviewee |-> workers[w].user, worker |-> w,
                        rating |-> rating, review |-> review,
                        reviewType |-> "customer_to_worker",
                        isActive |-> TRUE])
         IN /\ Len(reviews) < MaxReviews
            /\ reviews' = revs
            /\ workers' = updateRating(workers, revs, w)
            /\ requests' = [requests EXCEPT ![r] =
                               [@ EXCEPT !.customerRating = rating,
                                         !.customerReview = review]]
            /\ resp' = Response("rate", u, r, 200, reviewType)
            /\ UNCHANGED <<accounts, trackings, calls, okAccepts>>
    ELSE /\ resp' = Response("rate", u, r, 200, reviewType)
         /\ UNCHANGED <<accounts, requests, workers, trackings, reviews, calls, okAccepts>>

\* ------------------------------------------------- routes/tracking.js
\* Tracking.findOne({ serviceRequest, isLive: true })
existingTracking(r) ==
    \E t \in 1..Len(trackings) :
        trackings[t].serviceRequest = r /\ trackings[t].isLive

CreateTrackingCode(u, r) ==
    IF ~authorize(u, {"worker"}) THEN 403
    ELSE IF ~Exists(r) THEN 404
    ELSE IF FindWorkerByUser(u) = NoWorker THEN 404
    ELSE IF existingTracking(r) THEN 400
    ELSE 201

\* POST /api/tracking
CreateTracking(u, r, coords) ==
    LET at == IF coords = NoCoords THEN Origin ELSE coords IN
    IF CreateTrackingCode(u, r) # 201 THEN Refused
    ELSE /\ Len(trackings) < MaxTrackings
         /\ trackings' = Append(trackings,
               [serviceRequest |-> r,
                worker |-> FindWorkerByUser(u),
                customer |-> requests[r].customer,
                currentLocation |-> at,
                destination |-> requests[r].location,
                status |-> "en_route",
                isLive |-> TRUE,
                locationHistory |-> <<at>>,
                endedAt |-> 0])
         /\ resp' = Response("track", u, r, 201, NoArg)
         /\ UNCHANGED <<accounts, requests, workers, reviews, calls, okAccepts>>

\* authorize('worker'), Tracking.findById and the "Verify worker" test shared
\* by the three tracking updates
TrackingCode(u, t) ==
    IF ~authorize(u, {"worker"}) THEN 403
    ELSE IF ~TExists(t) THEN 404
    ELSE IF FindWorkerByUser(u) = NoWorker THEN 403
    ELSE IF trackings[t].worker # FindWorkerByUser(u) THEN 403
    ELSE 200

replaceHistory(h, entry) == <<entry>>

\* tracking.locationHistory.push(entry); save() sends it as a $push
pushHistory(h, entry) == Append(h, entry)

\* PUT /api/tracking/:id/location
UpdateLocation(u, t, coords) ==
    IF TrackingCode(u, t) # 200 THEN Refused
    ELSE LET w == FindWorkerByUser(u)
             at == IF coords = NoCoords THEN trackings[t].currentLocation ELSE coords
         IN /\ Len(trackings[t].locationHistory) < MaxHistory
            /\ trackings' = [trackings EXCEPT ![t] =
                  [@ EXCEPT !.currentLocation = at,
                            !.locationHistory = pushHistory(@, at)]]
            /\ workers' = [workers EXCEPT ![w].location =
                              IF coords = NoCoords THEN @ ELSE coords]
            /\ resp' = Response("location", u, t, 200, NoArg)
            /\ UNCHANGED <<accounts, requests, reviews, calls, okAccepts>>

\* PUT /api/tracking/:id/location at its awaits.  First the two reads
\* (Tracking.findById, Worker.findOne) and the checks; the call keeps the
\* coordinates it will write to the Tracking (at), which fall back to the
\* ones read, and to the Worker (wat).
MoveFind(p, u, t, coords) ==
    /\ calls[p].phase = "idle"
    /\ \A q \in Procs : q < p => calls[q].phase # "idle"
    /\ IF TrackingCode(u, t) # 200 THEN Refused
       ELSE /\ calls' = [calls EXCEPT ![p] =
                  [phase |-> "located", user |-> u, req |-> t,
                   wid |-> FindWorkerByUser(u), jobs |-> 0,
                   at |-> IF coords = NoCoords
                          THEN trackings[t].currentLocation ELSE coords,
                   wat |-> coords]]
            /\ UNCHANGED <<accounts, requests, workers, trackings, reviews, resp, okAccepts>>

\* worker.save(): without coordinates in the body the location is assigned
\* the value read and is not a modified path
MoveSaveWorker(p) ==
    /\ calls[p].phase = "located"
    /\ workers' = [workers EXCEPT ![calls[p].wid].location =
                      IF calls[p].wat = NoCoords THEN @ ELSE calls[p].wat]
    /\ calls' = [calls EXCEPT ![p].phase = "workerSaved"]
    /\ UNCHANGED <<accounts, requests, trackings, reviews, resp, okAccepts>>

\* tracking.save(): currentLocation is set, the new entry is pushed onto the
\* stored locationHistory; then the response
MoveSaveTracking(p) ==
    /\ calls[p].phase = "workerSaved"
    /\ Len(trackings[calls[p].req].locationHistory) < MaxMoves
    /\ trackings' = [trackings EXCEPT ![calls[p].req] =
          [@ EXCEPT !.currentLocation = calls[p].at,
                    !.locationHistory = pushHistory(@, calls[p].at)]]
    /\ resp' = Response("location", calls[p].user, calls[p].req, 200, NoArg)
    /\ calls' = [calls EXCEPT ![p] = Idle]
    /\ UNCHANGED <<accounts, requests, workers, reviews, okAccepts>>

MirrorEveryStatus(rs, r, status) ==
    IF r \in 1..Len(rs) THEN [rs EXCEPT ![r].status = "in_progress"] ELSE rs

\* ServiceRequest.findByIdAndUpdate(id, { status: 'in_progress' })
MirrorArrived(rs, r, status) ==
    IF status = "arrived" /\ r \in 1..Len(rs)
    THEN [rs EXCEPT ![r].status = "in_progress"]
    ELSE rs

UpdateStatusCodeAnyValue(u, t, status) == TrackingCode(u, t)

UpdateStatusCode(u, t, status) ==
    IF TrackingCode(u, t) # 200 THEN TrackingCode(u, t)
    ELSE IF status \notin TrackingStatuses THEN 400
    ELSE 200

\* PUT /api/tracking/:id/status
UpdateStatus(u, t, status) ==
    IF UpdateStatusCode(u, t, status) # 200 THEN Refused
    ELSE /\ status = "completed" => CanEnd(trackings[t].endedAt)
         /\ trackings' = [trackings EXCEPT ![t] =
               [@ EXCEPT !.status = status,
                         !.isLive = IF status = "completed" THEN FALSE ELSE @,
                         !.endedAt = IF status = "completed" THEN NewDate(@) ELSE @]]
         /\ requests' = MirrorArrived(requests, trackings[t].serviceRequest, status)
         /\ resp' = Response("status", u, t, 200, NoArg)
         /\ UNCHANGED <<accounts, workers, reviews, calls, okAccepts>>

\* PUT /api/tracking/:id/end
End(u, t) ==
    IF TrackingCode(u, t) # 200 THEN Refused
    ELSE /\ CanEnd(trackings[t].endedAt)
         /\ trackings' = EndTracking(trackings, t)
         /\ resp' = Response("end", u, t, 200, NoArg)
         /\ UNCHANGED <<accounts, requests, workers, reviews, calls, okAccepts>>

TrackingIds == 1..MaxTrackings

\* ------------------------------------------------- routes/review.js
\* Review.findOne({ serviceRequest, reviewer })
existingReview(u, r) ==
    \E i \in 1..Len(reviews) :
        reviews[i].serviceRequest = r /\ reviews[i].reviewer = u

\* the checks of POST /api/reviews; worker.user throws without the Worker
\* (500) and Review.create throws on an invalid rating (500)
CreateReviewCode(u, r, rating, reviewType) ==
    IF ~Exists(r) THEN 404
    ELSE IF requests[r].status # "completed" THEN 400
    ELSE IF reviewType # "customer_to_worker" THEN 400
    ELSE IF requests[r].worker = NoWorker THEN 400
    ELSE IF requests[r].worker \notin DOMAIN workers THEN 500
    ELSE IF existingReview(u, r) THEN 400
    ELSE IF ~ValidRating(rating) THEN 500
    ELSE 201

\* POST /api/reviews
CreateReview(u, r, rating, review, reviewType) ==
    IF CreateReviewCode(u, r, rating, reviewType) # 201 THEN Refused
    ELSE LET w == requests[r].worker
             revs == Append(reviews,
                       [serviceRequest |-> r, reviewer |-> u,
                        reviewee |-> workers[w].user, worker |-> w,
                        rating |-> rating, review |-> review,
                        reviewType |-> reviewType,
                        isActive |-> TRUE])
         IN /\ Len(reviews) < MaxReviews
            /\ reviews' = revs
            /\ workers' = updateRating(workers, revs, w)
            /\ requests' = [requests EXCEPT ![r] =
                               [@ EXCEPT !.customerRating = rating,
                                         !.customerReview = review]]
            /\ resp' = Response("review", u, r, 201, reviewType)
            /\ UNCHANGED <<accounts, trackings, calls, okAccepts>>

\* the checks of PUT /api/reviews/:id; a rating outside 1..5 fails
\* validation in save (500), a rating of 0 leaves the stored one
UpdateReviewCode(u, i, rating) ==
    IF i \notin 1..Len(reviews) THEN 404
    ELSE IF reviews[i].reviewer # u /\ role(u) # "admin" THEN 403
    ELSE IF rating # 0 /\ ~ValidRating(rating) THEN 500
    ELSE 200

\* PUT /api/reviews/:id
UpdateReview(u, i, rating, review) ==
    IF UpdateReviewCode(u, i, rating) # 200 THEN Refused
    ELSE LET revs == [reviews EXCEPT ![i] =
                        [@ EXCEPT !.rating = IF rating # 0 THEN rating ELSE @,
                                  !.review = review]]
         IN /\ reviews' = revs
            /\ workers' = updateRating(workers, revs, reviews[i].worker)
            /\ resp' = Response("review-update", u, i, 200, NoArg)
            /\ UNCHANGED <<accounts, requests, trackings, calls, okAccepts>>

DeleteReviewCode(u, i) ==
    IF ~authorize(u, {"admin"}) THEN 403
    ELSE IF i \notin 1..Len(reviews) THEN 404
    ELSE 200

\* DELETE /api/reviews/:id: isActive = false, then updateRating
DeleteReview(u, i) ==
    IF DeleteReviewCode(u, i) # 200 THEN Refused
    ELSE LET revs == [reviews EXCEPT ![i].isActive = FALSE]
         IN /\ reviews' = revs
            /\ workers' = updateRating(workers, revs, reviews[i].worker)
            /\ resp' = Response("review-delete", u, i, 200, NoArg)
            /\ UNCHANGED <<accounts, requests, trackings, calls, okAccepts>>

\* ------------------------------------------------- routes/auth.js
\* Every route below awaits sendEmail, which catches its own errors and
\* reports them as false: `sent` is that result.  The responses of these
\* routes carry it in arg.
Mail(sent) == IF sent THEN "sent" ELSE "failed"

\* the roles register accepts; any other value becomes customer
userRole(r) == IF r \in {"customer", "worker"} THEN r ELSE "customer"

\* POST /api/auth/register
Register(e, password, r, sent) ==
    IF e \in DOMAIN accounts THEN Refused
    ELSE /\ accounts' = [a \in DOMAIN accounts \cup {e} |->
                            IF a = e THEN Account(password, userRole(r)) ELSE accounts[a]]
         /\ resp' = Response("register", e, 0, 201, Mail(sent))
         /\ UNCHANGED <<requests, workers, trackings, reviews, calls, okAccepts>>

\* POST /api/auth/send-otp
SendOtp(e, otp, sent) ==
    IF e \notin DOMAIN accounts THEN Refused
    ELSE /\ accounts' = [accounts EXCEPT ![e].otp = otp, ![e].otpAge = 0,
                                           ![e].issued = otp]
         /\ resp' = Response("send-otp", e, 0, 200, Mail(sent))
         /\ UNCHANGED <<requests, workers, trackings, reviews, calls, okAccepts>>

\* ten minutes, the lifetime send-otp gives an OTP
OtpLifetime == 2

\* user.otpExpires < new Date()
Expired(user) == user.otpAge > OtpLifetime

\* five minutes pass
Tick ==
    /\ \E e \in DOMAIN accounts : accounts[e].otp # NoOtp /\ accounts[e].otpAge < MaxAge
    /\ accounts' = [e \in DOMAIN accounts |->
                       IF accounts[e].otp # NoOtp /\ accounts[e].otpAge < MaxAge
                       THEN [accounts[e] EXCEPT !.otpAge = @ + 1]
                       ELSE accounts[e]]
    /\ UNCHANGED <<requests, workers, trackings, reviews, calls, resp, okAccepts>>

VerifyOtpCodeNoExpiry(e, otp) ==
    IF e \notin DOMAIN accounts THEN 404
    ELSE IF accounts[e].otp # otp THEN 400
    ELSE 200
\* the checks of POST /api/auth/verify-otp
VerifyOtpCode(e, otp) ==
    IF e \notin DOMAIN accounts THEN 404
    ELSE IF accounts[e].otp # otp THEN 400
    ELSE IF Expired(accounts[e]) THEN 400
    ELSE 200

\* POST /api/auth/verify-otp: the OTP is cleared once it has been accepted
VerifyOtp(e, otp) ==
    IF VerifyOtpCode(e, otp) # 200 THEN Refused
    ELSE /\ accounts' = [accounts EXCEPT ![e].otp = NoOtp, ![e].otpAge = 0,
                                           ![e].issued = NoOtp, ![e].verified = TRUE]
         /\ resp' = Response("verify-otp", e, 0, 200, otp)
         /\ UNCHANGED <<requests, workers, trackings, reviews, calls, okAccepts>>

\* POST /api/auth/reset-password
ResetPassword(e, newPassword, sent) ==
    IF e \notin DOMAIN accounts THEN Refused
    ELSE /\ accounts' = [accounts EXCEPT ![e].password = newPassword]
         /\ resp' = Response("reset-password", e, 0, 200, Mail(sent))
         /\ UNCHANGED <<requests, workers, trackings, reviews, calls, okAccepts>>

\* POST /api/auth/forgot-password: the token is saved, and taken back with
\* a 500 answer when the email was not sent
ForgotPassword(e, token, sent) ==
    IF e \notin DOMAIN accounts THEN Refused
    ELSE /\ accounts' = [accounts EXCEPT ![e].resetPasswordToken =
                            IF sent THEN token ELSE NoToken]
         /\ resp' = Response("forgot-password", e, 0, IF sent THEN 200 ELSE 500, Mail(sent))
         /\ UNCHANGED <<requests, workers, trackings, reviews, calls, okAccepts>>

\* ------------------------------------------- POST /api/workers/register
\* Worker _ids are drawn from ProfileIds; a new document takes one that no
\* stored Worker has.
ProfileIds == 1..MaxWorkers

NewProfileId(ws) == CHOOSE w \in ProfileIds : w \notin DOMAIN ws

\* countDocuments() + 1: the number part of OH-PART-<year>-<number>
trackingNumber(count) == count + 1

\* the unique index on trackingId refuses a second document with the value
DuplicateKey(ws, trackingId) == \E w \in DOMAIN ws : ws[w].trackingId = trackingId

\* Worker.create of the route
Profile(u, trackingId) ==
    [user |-> u, trackingId |-> trackingId, applicationStatus |-> "pending"]

Insert(ws, doc) ==
    LET w == NewProfileId(ws)
    IN  [x \in DOMAIN ws \cup {w} |-> IF x = w THEN doc ELSE ws[x]]

\* status of POST /api/workers/register run without interruption
RegisterWorkerCode(u) ==
    IF \E w \in DOMAIN workers : workers[w].user = u THEN 400
    ELSE IF DuplicateKey(workers, trackingNumber(Cardinality(DOMAIN workers))) THEN 500
    ELSE 201

\* the whole handler: findOne, countDocuments, create, role update
RegisterWorker(u) ==
    IF RegisterWorkerCode(u) # 201 THEN Refused
    ELSE /\ Cardinality(DOMAIN workers) < MaxWorkers
         /\ workers' = Insert(workers,
                           Profile(u, trackingNumber(Cardinality(DOMAIN workers))))
         /\ accounts' = [accounts EXCEPT ![u].role = "worker"]
         /\ resp' = Response("register-worker", u, NewProfileId(workers), 201,
                             trackingNumber(Cardinality(DOMAIN workers)))
         /\ UNCHANGED <<requests, trackings, reviews, calls, okAccepts>>

\* The same handler split at its awaits.  First await: Worker.findOne
RegisterFind(p, u) ==
    /\ calls[p].phase = "idle"
    /\ IF \E w \in DOMAIN workers : workers[w].user = u
       THEN Refused
       ELSE /\ calls' = [calls EXCEPT ![p] = [phase |-> "unregistered", user |-> u]]
            /\ UNCHANGED <<accounts, requests, workers, trackings, reviews, resp, okAccepts>>

\* second await: Worker.countDocuments
RegisterCount(p) ==
    /\ calls[p].phase = "unregistered"
    /\ calls' = [calls EXCEPT ![p] = [phase |-> "counted", user |-> calls[p].user,
                                       count |-> Cardinality(DOMAIN workers)]]
    /\ UNCHANGED <<accounts, requests, workers, trackings, reviews, resp, okAccepts>>

\* third and fourth await: Worker.create, which the unique index can refuse
\* (the error handler answers), then User.findByIdAndUpdate and the response
RegisterCreate(p) ==
    /\ calls[p].phase = "counted"
    /\ calls' = [calls EXCEPT ![p] = Idle]
    /\ IF DuplicateKey(workers, trackingNumber(calls[p].count))
       THEN UNCHANGED <<accounts, requests, workers, trackings, reviews, resp, okAccepts>>
       ELSE /\ Cardinality(DOMAIN workers) < MaxWorkers
            /\ workers' = Insert(workers,
                              Profile(calls[p].user, trackingNumber(calls[p].count)))
            /\ accounts' = [accounts EXCEPT ![calls[p].user].role = "worker"]
            /\ resp' = Response("register-worker", calls[p].user, NewProfileId(workers),
                                201, trackingNumber(calls[p].count))
            /\ UNCHANGED <<requests, trackings, reviews, okAccepts>>

\* the values the applicationStatus enum of the Worker schema accepts
ApplicationStatuses == {"pending", "approved", "rejected"}

\* PUT /api/workers/status/:id: protect only, then findById; a value outside
\* the enum fails validation in save
UpdateApplicationStatusCode(u, w, applicationStatus) ==
    IF w \notin DOMAIN workers THEN 404
    ELSE IF applicationStatus \notin ApplicationStatuses THEN 500
    ELSE 200

UpdateApplicationStatus(u, w, applicationStatus) ==
    IF UpdateApplicationStatusCode(u, w, applicationStatus) # 200 THEN Refused
    ELSE /\ workers' = [workers EXCEPT ![w].applicationStatus = applicationStatus]
         /\ resp' = Response("worker-status", u, w, 200, applicationStatus)
         /\ UNCHANGED <<accounts, requests, trackings, reviews, calls, okAccepts>>

\* DELETE /api/workers/:id, open to every authenticated user
DeleteWorker(u, w) ==
    IF w \notin DOMAIN workers THEN Refused
    ELSE /\ workers' = [x \in DOMAIN workers \ {w} |-> workers[x]]
         /\ resp' = Response("delete-worker", u, w, 200, NoArg)
         /\ UNCHANGED <<accounts, requests, trackings, reviews, calls, okAccepts>>

\* ------------------------------------------------------------- listings
\* Points used by the listing queries, <<longitude, latitude>> in hundredths
\* of a degree.  They lie on the equator, where the haversine formula gives
\* exactly R * |dLon|.
Home == <<7759, 0>>
Close == <<7760, 0>>
Far == <<7850, 0>>

Abs(x) == IF x < 0 THEN -x ELSE x

\* utils/helpers calculateDistance, in metres: R = 6371 km is 111195 m per
\* degree of arc.  Given for two points on one meridian or on the equator.
calculateDistance(lat1, lon1, lat2, lon2) ==
    CASE lon1 = lon2 -> (111195 * Abs(lat2 - lat1)) \div 100
      [] lat1 = 0 /\ lat2 = 0 -> (111195 * Abs(lon2 - lon1)) \div 100

\* The same function term by term, for coordinates in whole degrees that are
\* multiples of 60, so that every half difference is a multiple of 30.
\* Math.sin(toRadians(x)) and Math.cos(toRadians(x)) in thousandths:
sinTable == [x \in {0, 30, 60, 90, 120, 150, 180} |->
               CASE x \in {0, 180} -> 0
                 [] x \in {30, 150} -> 500
                 [] x \in {60, 120} -> 866
                 [] x = 90 -> 1000]

sinDeg(x) == IF x < 0 THEN 0 - sinTable[0 - x] ELSE sinTable[x]

cosDeg(x) == sinDeg(90 - x)

\* const a, in millionths
haversineSigned(lat1, lon1, lat2, lon2) ==
    LET dLat == lat2 - lat1
        dLon == lon2 - lon1
    IN  sinDeg(dLat \div 2) * 1000
          + ((cosDeg(lat1) * cosDeg(lat2)) \div 1000) * sinDeg(dLon \div 2)
haversine(lat1, lon1, lat2, lon2) ==
    LET dLat == lat2 - lat1
        dLon == lon2 - lon1
    IN  sinDeg(dLat \div 2) * sinDeg(dLat \div 2)
          + ((cosDeg(lat1) * cosDeg(lat2)) \div 1000)
              * ((sinDeg(dLon \div 2) * sinDeg(dLon \div 2)) \div 1000)

\* const c = 2 * atan2(sqrt(a), sqrt(1 - a)) in degrees, to the nearest
\* multiple of 30: the table holds sin^2(c / 2) in millionths
arcTable == [c \in {0, 30, 60, 90, 120, 150, 180} |->
               CASE c = 0 -> 0
                 [] c = 30 -> 66987
                 [] c = 60 -> 250000
                 [] c = 90 -> 500000
                 [] c = 120 -> 750000
                 [] c = 150 -> 933013
                 [] c = 180 -> 1000000]

arc(a) ==
    CHOOSE c \in DOMAIN arcTable :
        \A d \in DOMAIN arcTable :
            \/ Abs(arcTable[c] - a) < Abs(arcTable[d] - a)
            \/ Abs(arcTable[c] - a) = Abs(arcTable[d] - a) /\ c <= d

\* return R * c, in metres
calculateDistanceDeg(lat1, lon1, lat2, lon2) ==
    111195 * arc(haversine(lat1, lon1, lat2, lon2))

\* one evaluation, answered with the arguments and the result
Distance(lat1, lon1, lat2, lon2) ==
    /\ resp' = Response("distance", NoUser, 0, 0,
                        [from |-> <<lon1, lat1>>, to |-> <<lon2, lat2>>,
                         distance |-> calculateDistanceDeg(lat1, lon1, lat2, lon2)])
    /\ UNCHANGED <<accounts, requests, workers, trackings, reviews, calls, okAccepts>>

\* the distance MongoDB's $near measures on a 2dsphere index, in metres: its
\* sphere has the radius 6378.1 km, 111319 m per degree of arc
nearDistance(from, to) ==
    CASE from[1] = to[1] -> (111319 * Abs(to[2] - from[2])) \div 100
      [] from[2] = 0 /\ to[2] = 0 -> (111319 * Abs(to[1] - from[1])) \div 100

\* location: { $near: { $geometry, $maxDistance: parseFloat(radius) * 1000 } }
near(from, to, radius) == nearDistance(from, to) <= radius * 1000

Professions == {"plumber", "electrician"}
NoProfession == ""

availableRequestsLocatedOnly(w) ==
    {r \in 1..Len(requests) :
        /\ requests[r].serviceType = workers[w].profession
        /\ requests[r].status = "pending"
        /\ calculateDistance(workers[w].location[2], workers[w].location[1],
                             requests[r].location[2], requests[r].location[1])
              <= workers[w].serviceArea * 1000}

\* GET /api/workers/available/requests: the find and the distance filter
availableRequests(w) ==
    {r \in 1..Len(requests) :
        /\ requests[r].serviceType = workers[w].profession
        /\ requests[r].status = "pending"
        /\ \/ requests[r].location[1] = 0 /\ requests[r].location[2] = 0
           \/ calculateDistance(workers[w].location[2], workers[w].location[1],
                                requests[r].location[2], requests[r].location[1])
                 <= workers[w].serviceArea * 1000}

WorkerRouteCode(u) ==
    IF ~authorize(u, {"worker"}) THEN 403
    ELSE IF FindWorkerByUser(u) = NoWorker THEN 404
    ELSE 200

AvailableRequests(u) ==
    IF WorkerRouteCode(u) # 200 THEN Refused
    ELSE /\ resp' = Response("available", u, 0, 200, availableRequests(FindWorkerByUser(u)))
         /\ UNCHANGED <<accounts, requests, workers, trackings, reviews, calls, okAccepts>>

\* GET /api/services/nearby/requests: the find with $near around the point
\* of the query
nearbyRequests(w, at, radius) ==
    {r \in 1..Len(requests) :
        /\ requests[r].serviceType = workers[w].profession
        /\ requests[r].status = "pending"
        /\ near(at, requests[r].location, radius)}

NearbyRequests(u, at, radius) ==
    IF WorkerRouteCode(u) # 200 THEN Refused
    ELSE /\ resp' = Response("nearby", u, 0, 200,
                             nearbyRequests(FindWorkerByUser(u), at, radius))
         /\ UNCHANGED <<accounts, requests, workers, trackings, reviews, calls, okAccepts>>

\* GET /api/workers/nearby: the query
nearbyWorkers(at, profession, radius) ==
    {w \in DOMAIN workers :
        /\ workers[w].isVerified
        /\ workers[w].isAvailable
        /\ near(at, workers[w].location, radius)
        /\ profession # NoProfession => workers[w].profession = profession}

NearbyWorkers(at, profession, radius) ==
    /\ resp' = Response("workers/nearby", NoUser, 0, 200,
                        nearbyWorkers(at, profession, radius))
    /\ UNCHANGED <<accounts, requests, workers, trackings, reviews, calls, okAccepts>>

\* GET /api/users/workers/list: the query
workersList(profession) ==
    {w \in DOMAIN workers :
        /\ workers[w].isVerified
        /\ workers[w].isAvailable
        /\ profession # NoProfession => workers[w].profession = profession}

WorkersList(profession) ==
    /\ resp' = Response("workers/list", NoUser, 0, 200, workersList(profession))
    /\ UNCHANGED <<accounts, requests, workers, trackings, reviews, calls, okAccepts>>

\* GET /api/workers: Worker.find()
AllWorkers ==
    /\ resp' = Response("workers", NoUser, 0, 200, DOMAIN workers)
    /\ UNCHANGED <<accounts, requests, workers, trackings, reviews, calls, okAccepts>>

\* GET /api/workers/search: the query
searchWorkers(profession) ==
    {w \in DOMAIN workers :
        /\ workers[w].isVerified
        /\ profession # NoProfession => workers[w].profession = profession}

SearchWorkers(profession) ==
    /\ resp' = Response("workers/search", NoUser, 0, 200, searchWorkers(profession))
    /\ UNCHANGED <<accounts, requests, workers, trackings, reviews, calls, okAccepts>>

\* ------------------------------------------------------- specifications
\* Request bodies tried by Spec; "bogus" is a status outside the enum.
CreateCoords == {Place}
TrackCoords == {NoCoords}
MoveCoords == {Place}
SpecStatuses == {"arrived", "completed", "bogus"}

\* Calls made one at a time, except that one Accept call may be suspended at
\* any of its awaits while other handlers run.
Next ==
    \/ \E u \in Creators, loc \in CreateCoords : Create(u, loc)
    \/ \E u \in Users, r \in RequestIds : AcceptFind(1, u, r)
    \/ \E p \in Procs : AcceptFindWorker(p)
    \/ \E p \in Procs : AcceptSave(p)
    \/ \E p \in Procs : AcceptSaveWorker(p)
    \/ \E u \in Users, r \in RequestIds, reason \in ReasonInputs : Reject(u, r, reason)
    \/ \E u \in Users, r \in RequestIds : Start(u, r)
    \/ \E u \in Users, r \in RequestIds : Complete(u, r)
    \/ \E u \in Users, r \in RequestIds, rating \in RatingInputs,
          review \in ReviewInputs, reviewType \in ReviewTypes :
            Rate(u, r, rating, review, reviewType)
    \/ \E u \in Users, r \in RequestIds, coords \in TrackCoords : CreateTracking(u, r, coords)
    \/ \E u \in Users, t \in TrackingIds, coords \in MoveCoords : UpdateLocation(u, t, coords)
    \/ \E u \in Users, t \in TrackingIds, status \in SpecStatuses : UpdateStatus(u, t, status)
    \/ \E u \in Users, t \in TrackingIds : End(u, t)

Spec == Init /\ [][Next]_vars

\* Two Accept calls in flight at once, with the calls that decide what an
\* accepted request goes on to.
NextRace ==
    \/ \E u \in Creators, loc \in CreateCoords : Create(u, loc)
    \/ \E p \in Procs, u \in Users, r \in RequestIds : AcceptFind(p, u, r)
    \/ \E p \in Procs : AcceptFindWorker(p)
    \/ \E p \in Procs : AcceptSave(p)
    \/ \E p \in Procs : AcceptSaveWorker(p)
    \/ \E u \in Users, r \in RequestIds, reason \in ReasonInputs : Reject(u, r, reason)
    \/ \E u \in Users, r \in RequestIds : Start(u, r)

SpecRace == Init /\ [][NextRace]_vars

\* The calls that take a request to completed, and the two routes that rate
\* it.
NextRating ==
    \/ \E u \in Creators, loc \in CreateCoords : Create(u, loc)
    \/ \E u \in Users, r \in RequestIds : AcceptFind(1, u, r)
    \/ \E p \in Procs : AcceptFindWorker(p)
    \/ \E p \in Procs : AcceptSave(p)
    \/ \E p \in Procs : AcceptSaveWorker(p)
    \/ \E u \in Users, r \in RequestIds : Start(u, r)
    \/ \E u \in Users, r \in RequestIds : Complete(u, r)
    \/ \E u \in Users, r \in RequestIds, rating \in RatingInputs,
          review \in ReviewInputs, reviewType \in ReviewTypes :
            Rate(u, r, rating, review, reviewType)
    \/ \E u \in Users, r \in RequestIds, rating \in RatingInputs,
          review \in ReviewInputs, reviewType \in ReviewTypes :
            CreateReview(u, r, rating, review, reviewType)

SpecRating == Init /\ [][NextRating]_vars

\* Reviews of a completed request that are created, updated and deleted.
Reviewers == {"cust", "wk1", "adm"}

NextReviews ==
    \/ \E u \in Creators, loc \in CreateCoords : Create(u, loc)
    \/ \E u \in Users, r \in RequestIds : AcceptFind(1, u, r)
    \/ \E p \in Procs : AcceptFindWorker(p)
    \/ \E p \in Procs : AcceptSave(p)
    \/ \E p \in Procs : AcceptSaveWorker(p)
    \/ \E u \in Users, r \in RequestIds : Start(u, r)
    \/ \E u \in Users, r \in RequestIds : Complete(u, r)
    \/ \E u \in Reviewers, r \in RequestIds, rating \in RatingInputs,
          reviewType \in ReviewTypes :
            CreateReview(u, r, rating, "good", reviewType)
    \/ \E u \in Reviewers, i \in 1..MaxReviews, rating \in RatingInputs :
          UpdateReview(u, i, rating, "good")
    \/ \E u \in Reviewers, i \in 1..MaxReviews : DeleteReview(u, i)

SpecReviews == Init /\ [][NextReviews]_vars

\* The calls that open a tracking session, all the updates of a session with
\* every status of the enum, and Complete.
NextTracking ==
    \/ \E u \in Creators, loc \in CreateCoords : Create(u, loc)
    \/ \E u \in Users, r \in RequestIds : AcceptFind(1, u, r)
    \/ \E p \in Procs : AcceptFindWorker(p)
    \/ \E p \in Procs : AcceptSave(p)
    \/ \E p \in Procs : AcceptSaveWorker(p)
    \/ \E u \in Users, r \in RequestIds : Start(u, r)
    \/ \E u \in Users, r \in RequestIds : Complete(u, r)
    \/ \E u \in Users, r \in RequestIds, coords \in TrackCoords : CreateTracking(u, r, coords)
    \/ \E u \in Users, t \in TrackingIds, coords \in MoveCoords : UpdateLocation(u, t, coords)
    \/ \E u \in Users, t \in TrackingIds, status \in TrackingStatuses \cup {"bogus"} :
          UpdateStatus(u, t, status)
    \/ \E u \in Users, t \in TrackingIds : End(u, t)

SpecTracking == Init /\ [][NextTracking]_vars

\* Two UpdateLocation calls in flight at once, each with coordinates in its
\* body, on the sessions that create-tracking and Start open.
RaceCoords == {Place, Far}

NextMoves ==
    \/ \E u \in Creators, loc \in CreateCoords : Create(u, loc)
    \/ \E u \in Users, r \in RequestIds : AcceptFind(1, u, r)
    \/ \E p \in Procs : AcceptFindWorker(p)
    \/ \E p \in Procs : AcceptSave(p)
    \/ \E p \in Procs : AcceptSaveWorker(p)
    \/ \E u \in Users, r \in RequestIds : Start(u, r)
    \/ \E u \in Users, r \in RequestIds, coords \in TrackCoords : CreateTracking(u, r, coords)
    \/ \E p \in Procs, u \in Users, t \in TrackingIds, coords \in RaceCoords :
          MoveFind(p, u, t, coords)
    \/ \E p \in Procs : MoveSaveWorker(p)
    \/ \E p \in Procs : MoveSaveTracking(p)

SpecMoves == Init /\ [][NextMoves]_vars

\* Start with a Tracking.create that can be rejected.
NextStart ==
    \/ \E u \in Creators, loc \in CreateCoords : Create(u, loc)
    \/ \E u \in Users, r \in RequestIds : AcceptFind(1, u, r)
    \/ \E p \in Procs : AcceptFindWorker(p)
    \/ \E p \in Procs : AcceptSave(p)
    \/ \E p \in Procs : AcceptSaveWorker(p)
    \/ \E p \in Procs, u \in Users, r \in RequestIds : StartSave(p, u, r)
    \/ \E p \in Procs, created \in BOOLEAN : StartCreate(p, created)
    \/ \E u \in Users, r \in RequestIds, reason \in ReasonInputs : Reject(u, r, reason)
    \/ \E u \in Users, r \in RequestIds : Complete(u, r)
    \/ \E u \in Users, t \in TrackingIds, coords \in MoveCoords : UpdateLocation(u, t, coords)
    \/ \E u \in Users, t \in TrackingIds, status \in SpecStatuses : UpdateStatus(u, t, status)

SpecStart == Init /\ [][NextStart]_vars

\* Workers that are deleted while requests and sessions refer to them.  The
\* deletions explored are those made while no Accept call is in flight.
DeleteWorkerAtRest(u, w) ==
    /\ \A p \in Procs : calls[p].phase = "idle"
    /\ DeleteWorker(u, w)

NextDelete ==
    \/ \E u \in Creators, loc \in CreateCoords : Create(u, loc)
    \/ \E u \in Users, r \in RequestIds : AcceptFind(1, u, r)
    \/ \E p \in Procs : AcceptFindWorker(p)
    \/ \E p \in Procs : AcceptSave(p)
    \/ \E p \in Procs : AcceptSaveWorker(p)
    \/ \E u \in Users, r \in RequestIds : Start(u, r)
    \/ \E u \in Users, r \in RequestIds : Complete(u, r)
    \/ \E u \in Users, w \in WorkerIds : DeleteWorkerAtRest(u, w)

SpecDelete == Init /\ [][NextDelete]_vars

\* The account routes, for a registered email and one that is not yet.
AuthEmails == {"cust", "new@mail"}

NextAuth ==
    \/ \E e \in AuthEmails, password \in Passwords, r \in {"worker", "admin"}, sent \in BOOLEAN :
          Register(e, password, r, sent)
    \/ \E e \in AuthEmails, otp \in OtpValues, sent \in BOOLEAN : SendOtp(e, otp, sent)
    \/ \E e \in AuthEmails, newPassword \in Passwords, sent \in BOOLEAN :
          ResetPassword(e, newPassword, sent)
    \/ \E e \in AuthEmails, token \in TokenValues, sent \in BOOLEAN :
          ForgotPassword(e, token, sent)
    \/ \E e \in AuthEmails, otp \in OtpValues : VerifyOtp(e, otp)
    \/ Tick

SpecAuth == Init /\ [][NextAuth]_vars

\* Worker registration, starting from an empty Worker collection.
Applicants == {"cust", "wk0"}

InitRegister ==
    /\ requests = <<>>
    /\ workers = [w \in {} |-> Profile(NoUser, 0)]
    /\ trackings = <<>>
    /\ reviews = <<>>
    /\ calls = [p \in Procs |-> Idle]
    /\ resp = Response("none", NoUser, 0, 0, NoArg)
    /\ okAccepts = [r \in RequestIds |-> <<>>]
    /\ accounts = [e \in Users |-> Account("pw", role(e))]

\* registration calls that interleave at their awaits
NextRegisterRace ==
    \/ \E p \in Procs, u \in Applicants : RegisterFind(p, u)
    \/ \E p \in Procs : RegisterCount(p)
    \/ \E p \in Procs : RegisterCreate(p)

SpecRegisterRace == InitRegister /\ [][NextRegisterRace]_vars

\* registrations and deletions, one call at a time
NextRegister ==
    \/ \E u \in Users : RegisterWorker(u)
    \/ \E u \in {"adm"}, w \in ProfileIds : DeleteWorker(u, w)
    \/ \E u \in Users, w \in ProfileIds, applicationStatus \in {"approved", "bogus"} :
          UpdateApplicationStatus(u, w, applicationStatus)

SpecRegister == InitRegister /\ [][NextRegister]_vars

\* calculateDistance over a grid of points.
Latitudes == {-60, 0, 60}
Longitudes == {-120, -60, 0, 60, 120}

NextDistance ==
    \E lat1 \in Latitudes, lon1 \in Longitudes, lat2 \in Latitudes, lon2 \in Longitudes :
        Distance(lat1, lon1, lat2, lon2)

SpecDistance == Init /\ [][NextDistance]_vars

\* Stored requests and Worker profiles that the listings are asked about:
\* two requests and the profile W1 range over the values below, W2 is a
\* verified electrician that is not available.
ListedRequests ==
    [customer : {"cust"},
     status : {"pending", "accepted"},
     serviceType : Professions,
     location : {Origin, Close, Far}]

ServiceAreas == {10, 200}
Radii == {10, 200}

ListedWorkers ==
    [user : {"wk1"},
     profession : {"plumber"},
     serviceArea : ServiceAreas,
     location : {Origin, Home},
     isVerified : BOOLEAN,
     isAvailable : BOOLEAN]

InitListing ==
    /\ requests \in [1..2 -> ListedRequests]
    /\ \E w1 \in ListedWorkers :
          workers = [w \in WorkerIds |->
                        IF w = "W1" THEN w1
                        ELSE [user |-> "wk2", profession |-> "electrician",
                              serviceArea |-> 10, location |-> Home,
                              isVerified |-> TRUE, isAvailable |-> FALSE]]
    /\ trackings = <<>>
    /\ reviews = <<>>
    /\ calls = [p \in Procs |-> Idle]
    /\ resp = Response("none", NoUser, 0, 0, {})
    /\ okAccepts = [r \in RequestIds |-> <<>>]
    /\ accounts = [e \in Users |-> Account("pw", role(e))]

NextListing ==
    \/ \E u \in Users : AvailableRequests(u)
    \/ \E u \in Users, at \in {Home}, radius \in Radii : NearbyRequests(u, at, radius)
    \/ \E at \in {Home}, profession \in {NoProfession, "plumber"}, radius \in Radii :
          NearbyWorkers(at, profession, radius)
    \/ \E profession \in {NoProfession, "plumber"} : WorkersList(profession)
    \/ AllWorkers
    \/ \E profession \in {NoProfession, "plumber"} : SearchWorkers(profession)

SpecListing == InitListing /\ [][NextListing]_vars
\* ------------------------------------------------------------ properties
\* The edges of the request lifecycle as the specification lists them.
Edges ==
    {<<"pending", "accepted">>, <<"pending", "cancelled">>,
     <<"accepted", "in_progress">>, <<"accepted", "rejected">>,
     <<"accepted", "cancelled">>, <<"in_progress", "completed">>}

LiveOf(r) ==
    {t \in 1..Len(trackings) : trackings[t].serviceRequest = r /\ trackings[t].isLive}

\* the user who owns the Worker assigned to a request
AssignedUser(sr) ==
    IF sr.worker \in DOMAIN workers THEN workers[sr.worker].user ELSE NoUser

\* C1: whatever calls are made, the status of a request changes only along
\* the listed edges (so rejected, cancelled and completed are never left).
C1_StatusFollowsEdges ==
    [][\A r \in 1..Len(requests) :
          requests'[r].status # requests[r].status
            => <<requests[r].status, requests'[r].status>> \in Edges]_vars

\* the workers whose Accept call on a request returned success
Winners(r) == {okAccepts[r][i] : i \in 1..Len(okAccepts[r])}

\* C2: of the workers that run Accept on one request at most one is answered
\* with success, and once no Accept is in flight the worker assigned is the
\* one whose call succeeded.
C2_OneAcceptWins ==
    \A r \in 1..Len(requests) :
        /\ Cardinality(Winners(r)) <= 1
        /\ (Winners(r) # {} /\ \A p \in Procs : calls[p].req # r)
              => AssignedUser(requests[r]) \in Winners(r)

\* C3: at most one Tracking record with isLive = true refers to a request.
C3_OneLivePerRequest ==
    \A r \in 1..Len(requests) : Cardinality(LiveOf(r)) <= 1

\* C4: the step that starts a request (it alone writes startedAt) appends
\* exactly one Tracking record, live and for that request; on a request that
\* is in_progress, Start by the assigned worker answers 400 and no step
\* starts it again.
C4_StartOpensOneSession ==
    [][\A r \in 1..Len(requests) :
          /\ requests'[r].startedAt # requests[r].startedAt
               => /\ Len(trackings') = Len(trackings) + 1
                  /\ SubSeq(trackings', 1, Len(trackings)) = trackings
                  /\ trackings'[Len(trackings')].serviceRequest = r
                  /\ trackings'[Len(trackings')].isLive
          /\ requests[r].status = "in_progress"
               => /\ requests'[r].startedAt = requests[r].startedAt
                  /\ \A u \in Users :
                        VerifyWorkerCode(u, requests[r]) = 200
                          => /\ StartCode(u, r) = 400
                             /\ Start(u, r) => UNCHANGED <<requests, trackings>>]_vars

\* C4 witness: Start has just succeeded, the request is in_progress with its
\* one live session, and a second Start by the same worker is refused.
C4_Witness ==
    /\ resp = Response("start", "wk1", 1, 200, NoArg)
    /\ requests[1].status = "in_progress"
    /\ Cardinality(LiveOf(1)) = 1
    /\ StartCode("wk1", 1) = 400

\* C5: right after a successful Complete no Tracking record of the request
\* is live.
C5_CompleteEndsTracking ==
    (resp.op = "complete" /\ resp.code = 200) => LiveOf(resp.id) = {}

\* C6: cancelledAt, cancellationReason and the status rejected/cancelled are
\* written only on a request that is pending or accepted.
C6_RejectOnlyWhenOpen ==
    [][\A r \in 1..Len(requests) :
          requests[r].status \notin {"pending", "accepted"}
            => /\ requests'[r].cancelledAt = requests[r].cancelledAt
               /\ requests'[r].cancellationReason = requests[r].cancellationReason
               /\ requests'[r].status \in {"rejected", "cancelled"}
                    => requests'[r].status = requests[r].status]_vars

\* C7: on an accepted request, Reject by the user who owns the assigned
\* Worker succeeds and makes the request rejected; Reject by the customer
\* succeeds and makes it cancelled.
C7_WorkerRejectsCustomerCancels ==
    \A r \in 1..Len(requests) :
        requests[r].status = "accepted" =>
            /\ RejectCode(AssignedUser(requests[r]), r) = 200
            /\ Rejected(AssignedUser(requests[r]), requests[r], NoText).status = "rejected"
            /\ RejectCode(requests[r].customer, r) = 200
            /\ Rejected(requests[r].customer, requests[r], NoText).status = "cancelled"

\* C8 as stated: Reject by a user who is neither the customer nor the owner
\* of the assigned Worker answers 403, whatever the role of that user.
C8_OthersForbidden ==
    \A r \in 1..Len(requests) : \A u \in Users :
        (u # requests[r].customer /\ u # AssignedUser(requests[r]))
            => RejectCode(u, r) = 403

\* C9: right after a Rate call in some direction has succeeded on a completed
\* request, every Rate call in that direction is refused with 400.
C9_RateOncePerDirection ==
    (resp.op = "rate" /\ resp.code = 200 /\ requests[resp.id].status = "completed")
        => \A u \in Users : \A rating \in RatingInputs :
              RateCode(u, resp.id, rating, resp.arg) = 400

\* C10: on a completed request the worker_to_customer Rate of the assigned
\* worker is accepted as long as workerRating is unset, whether or not the
\* customer has rated, and a successful worker_to_customer Rate sets
\* workerRating.
C10_DirectionsIndependent ==
    \A r \in 1..Len(requests) :
        /\ (requests[r].status = "completed" /\ requests[r].workerRating = 0)
              => RateCode(AssignedUser(requests[r]), r, 5, "worker_to_customer") = 200
        /\ (resp = Response("rate", AssignedUser(requests[r]), r, 200, "worker_to_customer"))
              => requests[r].workerRating # 0

\* C11: once customerRating or workerRating of a request is set, no step
\* changes its value.
C11_RatingsWriteOnce ==
    [][\A r \in 1..Len(requests) :
          /\ requests[r].customerRating # 0
                => requests'[r].customerRating = requests[r].customerRating
          /\ requests[r].workerRating # 0
                => requests'[r].workerRating = requests[r].workerRating]_vars

\* C12: a Tracking record is created with one entry in locationHistory, and
\* afterwards its locationHistory never gets shorter and grows by exactly one
\* entry in the steps that are a successful UpdateLocation on it, and in no
\* other step; so its length is one plus the number of those calls.
C12_HistoryCountsMoves ==
    [][/\ \A t \in (Len(trackings) + 1)..Len(trackings') :
            Len(trackings'[t].locationHistory) = 1
       /\ \A t \in 1..Len(trackings) :
            /\ t <= Len(trackings')
            /\ Len(trackings'[t].locationHistory) >= Len(trackings[t].locationHistory)
            /\ Len(trackings'[t].locationHistory) # Len(trackings[t].locationHistory)
                 => /\ Len(trackings'[t].locationHistory)
                          = Len(trackings[t].locationHistory) + 1
                    /\ resp'.op = "location" /\ resp'.id = t]_vars

\* the four collections
records == <<requests, workers, trackings, reviews>>

\* a Rate call that the state does not allow: the request is not completed,
\* or the rating of its direction is set
RateNotAllowed(sr, reviewType) ==
    \/ sr.status # "completed"
    \/ reviewType = "customer_to_worker" /\ sr.customerRating # 0
    \/ reviewType = "worker_to_customer" /\ sr.workerRating # 0

\* C13: a step that changes a ServiceRequest, Worker, Tracking or Review
\* record is never one of the calls that the state does not allow (Start on
\* a request not accepted, Complete on one not in_progress, Rate on one not
\* completed or already rated, create-tracking with a live session,
\* UpdateStatus with a value outside the valid set, Accept on a request not
\* pending); and such an Accept call ends at its status check, so that none
\* of its later steps follows.
C13_InvalidStateWritesNothing ==
    [][/\ calls' # calls =>
            \A p \in Procs : \A u \in Users : \A r \in 1..Len(requests) :
                requests[r].status # "pending" => ~AcceptFind(p, u, r)
       /\ records' # records =>
            /\ \A u \in Users : \A r \in 1..Len(requests) :
                  /\ requests[r].status # "pending" =>
                        \A p \in Procs : ~AcceptFind(p, u, r)
                  /\ requests[r].status # "accepted" => ~Start(u, r)
                  /\ requests[r].status # "in_progress" => ~Complete(u, r)
                  /\ existingTracking(r) =>
                        \A coords \in TrackCoords : ~CreateTracking(u, r, coords)
                  /\ \A reviewType \in ReviewTypes :
                        RateNotAllowed(requests[r], reviewType) =>
                           \A rating \in RatingInputs : \A review \in ReviewInputs :
                              ~Rate(u, r, rating, review, reviewType)
            /\ \A u \in Users : \A t \in 1..Len(trackings) :
                  \A status \in SpecStatuses \ TrackingStatuses :
                     ~UpdateStatus(u, t, status)]_vars

\* C13 witness: a completed and rated request with a live session left, on
\* which the assigned worker's Accept, Start, Complete, create-tracking and
\* an UpdateStatus with an unknown value, and the customer's Rate, are all
\* refused with 400.
C13_Witness ==
    /\ Len(requests) = 1 /\ Len(trackings) >= 1
    /\ requests[1].status = "completed" /\ requests[1].customerRating # 0
    /\ existingTracking(1)
    /\ AcceptCode("wk1", 1) = 400
    /\ StartCode("wk1", 1) = 400
    /\ CompleteCode("wk1", 1) = 400
    /\ RateCode("cust", 1, 5, "customer_to_worker") = 400
    /\ CreateTrackingCode("wk1", 1) = 400
    /\ UpdateStatusCode("wk1", 1, "bogus") = 400

\* C14: a step writes acceptedAt, startedAt, completedAt or cancelledAt of a
\* request only while the field is unset, and only together with the change
\* of status to accepted, in_progress, completed, or rejected/cancelled.
C14_TimestampsOnceOnTransition ==
    [][\A r \in 1..Len(requests) :
          LET old == requests[r]
              new == requests'[r]
              moved == new.status # old.status
          IN /\ new.acceptedAt # old.acceptedAt
                  => old.acceptedAt = 0 /\ moved /\ new.status = "accepted"
             /\ new.startedAt # old.startedAt
                  => old.startedAt = 0 /\ moved /\ new.status = "in_progress"
             /\ new.completedAt # old.completedAt
                  => old.completedAt = 0 /\ moved /\ new.status = "completed"
             /\ new.cancelledAt # old.cancelledAt
                  => old.cancelledAt = 0 /\ moved
                     /\ new.status \in {"rejected", "cancelled"}]_vars

\* the number of Accept calls of a user that were answered with success
AcceptedBy(u) ==
    Cardinality({ri \in RequestIds \X (1..MaxAccepted) :
                    /\ ri[2] <= Len(okAccepts[ri[1]])
                    /\ okAccepts[ri[1]][ri[2]] = u})

\* C15: completedJobs of every Worker equals the number of Accept calls of
\* its user that were answered with success.
C15_JobsCountAccepts ==
    \A w \in DOMAIN workers : workers[w].completedJobs = AcceptedBy(workers[w].user)

\* a request lies within the serviceArea (km) of a Worker
WithinArea(w, r) ==
    calculateDistance(workers[w].location[2], workers[w].location[1],
                      requests[r].location[2], requests[r].location[1])
        <= workers[w].serviceArea * 1000

\* C16: the available-requests listing answered to a worker holds exactly the
\* stored requests that are pending, of the worker's profession, and either
\* within the worker's serviceArea or located at (0,0).
C16_AvailableExact ==
    (resp.op = "available" /\ resp.code = 200) =>
        LET w == FindWorkerByUser(resp.user) IN
        \A r \in 1..Len(requests) :
            r \in resp.arg <=>
                /\ requests[r].status = "pending"
                /\ requests[r].serviceType = workers[w].profession
                /\ (WithinArea(w, r) \/ requests[r].location = Origin)

\* C16 witness: the plumber at Home with serviceArea 10 is answered with the
\* pending plumber request 1.1 km away and not with the one 101 km away.
C16_Witness ==
    /\ resp = Response("available", "wk1", 0, 200, {1})
    /\ workers["W1"].location = Home /\ workers["W1"].serviceArea = 10
    /\ requests[1].status = "pending" /\ requests[1].serviceType = "plumber"
    /\ requests[1].location = Close
    /\ requests[2].status = "pending" /\ requests[2].serviceType = "plumber"
    /\ requests[2].location = Far

\* C17: every request that a listing of nearby pending requests answers to a
\* worker lies within that worker's serviceArea or is located at (0,0).
C17_ListedWithinServiceArea ==
    (resp.op \in {"available", "nearby"} /\ resp.code = 200) =>
        LET w == FindWorkerByUser(resp.user) IN
        \A r \in resp.arg : WithinArea(w, r) \/ requests[r].location = Origin

\* C18: a verified, available Worker located at (0,0) is returned by the
\* nearby-workers query for every origin and radius, and its
\* available-requests listing holds every pending request of its profession.
C18_UnlocatedWorkerAlwaysMatches ==
    \A w \in DOMAIN workers :
        (workers[w].location = Origin /\ workers[w].isVerified /\ workers[w].isAvailable)
           => /\ \A at \in {Home, Close, Far} : \A radius \in Radii :
                    w \in nearbyWorkers(at, NoProfession, radius)
              /\ availableRequests(w) =
                    {r \in 1..Len(requests) :
                        /\ requests[r].status = "pending"
                        /\ requests[r].serviceType = workers[w].profession}

\* C19: every Worker returned by a public listing, proximity or search
\* route is verified and available.
C19_PublicListingsGated ==
    (resp.op \in {"workers/list", "workers", "workers/nearby", "workers/search"}) =>
        \A w \in resp.arg : workers[w].isVerified /\ workers[w].isAvailable

\* C20: a successful UpdateStatus with arrived leaves the request of the
\* session with the status in_progress and its other fields as they were; a
\* successful UpdateStatus with en_route, working or completed, UpdateLocation
\* and End change no request.
C20_OnlyArrivedTouchesRequest ==
    [][\A u \in Users : \A t \in 1..Len(trackings) :
          TrackingCode(u, t) = 200 =>
            LET r == trackings[t].serviceRequest IN
            /\ UpdateStatus(u, t, "arrived")
                  => requests' = [requests EXCEPT ![r].status = "in_progress"]
            /\ requests' # requests =>
                  /\ \A status \in {"en_route", "working", "completed"} :
                        ~UpdateStatus(u, t, status)
                  /\ \A coords \in MoveCoords : ~UpdateLocation(u, t, coords)
                  /\ ~End(u, t)]_vars

\* C20 witness: UpdateStatus with arrived has just succeeded on the session of
\* a request that was not started, and the request is in_progress.
C20_Witness ==
    /\ resp = Response("status", "wk1", 1, 200, NoArg)
    /\ trackings[1].status = "arrived"
    /\ requests[trackings[1].serviceRequest].status = "in_progress"
    /\ requests[trackings[1].serviceRequest].startedAt = 0

\* C21: a Tracking record is created live; a record that is not live never
\* becomes live again; a live record stops being live only in a step of
\* UpdateStatus, End or Complete; End by the worker of the record leaves it
\* not live and completed whatever its status was; and a record with the
\* status completed is never live.
C21_LiveUntilEnded ==
    [][/\ \A t \in (Len(trackings) + 1)..Len(trackings') : trackings'[t].isLive
       /\ \A t \in 1..Len(trackings) :
            /\ ~trackings[t].isLive => ~trackings'[t].isLive
            /\ (trackings[t].isLive /\ ~trackings'[t].isLive)
                  => resp'.op \in {"status", "end", "complete"}
            /\ resp'.op = "end" /\ resp'.id = t /\ resp' # resp
                  => ~trackings'[t].isLive /\ trackings'[t].status = "completed"
       /\ \A t \in 1..Len(trackings') :
            trackings'[t].status = "completed" => ~trackings'[t].isLive]_vars

\* C21 witness: End has just succeeded on the first of two sessions, which is
\* now completed and not live, while the second one is still live.
C21_Witness ==
    /\ resp = Response("end", "wk1", 1, 200, NoArg)
    /\ Len(trackings) = 2
    /\ trackings[1].status = "completed" /\ ~trackings[1].isLive
    /\ trackings[1].endedAt = 1
    /\ trackings[2].isLive /\ trackings[2].status = "arrived"

\* C22: in every step the locationHistory of every Tracking record keeps its
\* entries, in their order, as a prefix of the new history, also when the
\* steps of two UpdateLocation calls interleave.
C22_HistoryAppendOnly ==
    [][\A t \in 1..Len(trackings) :
          /\ t <= Len(trackings')
          /\ Len(trackings'[t].locationHistory) >= Len(trackings[t].locationHistory)
          /\ SubSeq(trackings'[t].locationHistory, 1, Len(trackings[t].locationHistory))
                = trackings[t].locationHistory]_vars

\* C22 witness: two UpdateLocation calls of wk1 with different coordinates
\* have interleaved on session 1 (the Worker keeps the coordinates of the
\* call whose tracking.save() came first) and both entries are in the history.
C22_Witness ==
    /\ \A p \in Procs : calls[p].phase = "idle"
    /\ resp = Response("location", "wk1", 1, 200, NoArg)
    /\ Len(trackings) = 1
    /\ Len(trackings[1].locationHistory) = 2
    /\ trackings[1].locationHistory[1] = workers["W1"].location
    /\ trackings[1].locationHistory[2] # workers["W1"].location

\* the sessions of the Worker of session t
SessionsOf(t) ==
    {t2 \in 1..Len(trackings) : trackings[t2].worker = trackings[t].worker}

\* C29: when no UpdateLocation call is in flight and the last call answered
\* was an UpdateLocation on the only session of its Worker, the location of
\* the Worker, the currentLocation of the session and the last entry of its
\* locationHistory are the same coordinates.
C29_LocationsAgree ==
    \A t \in 1..Len(trackings) :
        (/\ \A p \in Procs : calls[p].phase = "idle"
         /\ resp.op = "location" /\ resp.id = t
         /\ SessionsOf(t) = {t})
           => /\ workers[trackings[t].worker].location = trackings[t].currentLocation
              /\ trackings[t].currentLocation
                    = trackings[t].locationHistory[Len(trackings[t].locationHistory)]

\* C23: a request is created pending and without a worker; the worker
\* reference changes only in the save of an Accept call, which goes on to
\* answer with success; and a pending request never has a worker.
C23_PendingHasNoWorker ==
    [][/\ \A r \in (Len(requests) + 1)..Len(requests') :
            requests'[r].status = "pending" /\ requests'[r].worker = NoWorker
       /\ \A r \in 1..Len(requests) :
            requests'[r].worker # requests[r].worker
               => \E p \in Procs :
                     /\ calls[p].phase = "worker" /\ calls[p].req = r
                     /\ calls'[p].phase = "saved"
                     /\ requests'[r].worker = calls[p].wid
       /\ \A r \in 1..Len(requests') :
            requests'[r].status = "pending" => requests'[r].worker = NoWorker]_vars

\* C23 witness: Accept by wk1 has just succeeded and the request, no longer
\* pending, refers to the Worker of wk1.
C23_Witness ==
    /\ resp = Response("accept", "wk1", 1, 200, NoArg)
    /\ requests[1].status = "accepted"
    /\ requests[1].worker = "W1"

\* C24: Start and Complete by a user with the role worker who does not own
\* the Worker of the request, and UpdateLocation, UpdateStatus and End by one
\* who does not own the Worker of the session, are answered with 403.
C24_OtherWorkerForbidden ==
    \A u \in Users : role(u) = "worker" =>
        /\ \A r \in 1..Len(requests) :
              (requests[r].worker = NoWorker \/ requests[r].worker # FindWorkerByUser(u))
                 => StartCode(u, r) = 403 /\ CompleteCode(u, r) = 403
        /\ \A t \in 1..Len(trackings) :
              trackings[t].worker # FindWorkerByUser(u)
                 => /\ TrackingCode(u, t) = 403
                    /\ \A status \in TrackingStatuses : UpdateStatusCode(u, t, status) = 403

\* C25: when sendEmail has reported a failure to register, send-otp,
\* forgot-password or reset-password, the route has answered with success
\* and what it wrote is kept: the account exists, the OTP or the reset token
\* is stored.
C25_MailFailureIsHarmless ==
    (resp.op \in {"register", "send-otp", "forgot-password", "reset-password"}
       /\ resp.arg = Mail(FALSE))
      => /\ resp.code \in {200, 201}
         /\ resp.user \in DOMAIN accounts
         /\ resp.op = "send-otp" => accounts[resp.user].otp # NoOtp
         /\ resp.op = "forgot-password"
               => accounts[resp.user].resetPasswordToken # NoToken

\* C26: however worker-registration calls interleave, no user ends up with
\* two Worker documents.
C26_OneWorkerPerUser ==
    \A w1, w2 \in DOMAIN workers :
        workers[w1].user = workers[w2].user => w1 = w2

\* C30: after any sequence of registrations and deletions, a registration
\* by a user who has no Worker succeeds, with a trackingId that no stored
\* Worker has.
C30_RegistrationAfterDeletion ==
    \A u \in Users :
        (/\ Cardinality(DOMAIN workers) < MaxWorkers
         /\ ~ \E w \in DOMAIN workers : workers[w].user = u)
          => /\ RegisterWorkerCode(u) = 201
             /\ ~ DuplicateKey(workers, trackingNumber(Cardinality(DOMAIN workers)))

\* C27: calculateDistance returns 0 for two equal points, and the distance
\* from a to b is the distance from b to a.
C27_DistanceZeroAndSymmetric ==
    resp.op = "distance"
      => /\ resp.arg.from = resp.arg.to => resp.arg.distance = 0
         /\ resp.arg.distance =
               calculateDistanceDeg(resp.arg.to[2], resp.arg.to[1],
                                    resp.arg.from[2], resp.arg.from[1])

\* a distance between two points that differ in latitude and in longitude
C27_Witness ==
    /\ resp.op = "distance"
    /\ resp.arg.from[1] # resp.arg.to[1]
    /\ resp.arg.from[2] # resp.arg.to[2]
    /\ resp.arg.distance > 0

\* C28: a Start whose Tracking.create failed does not leave the request in
\* in_progress without a session: once no Start is in flight, a request in
\* in_progress either has a tracking session or can be started again by its
\* worker.
C28_StartAllOrNothing ==
    \A r \in 1..Len(requests) :
        (/\ requests[r].status = "in_progress"
         /\ \A p \in Procs : calls[p].phase # "started")
          => \/ \E t \in 1..Len(trackings) : trackings[t].serviceRequest = r
             \/ StartCode(AssignedUser(requests[r]), r) = 200

\* C31: a Worker's applicationStatus is changed only by an admin: the caller
\* of the last PUT /workers/status/:id that was answered with success has
\* the role admin.
C31_StatusByAdminOnly ==
    resp.op = "worker-status" => accounts[resp.user].role = "admin"

\* the Worker that the review of the last review call is about
ReviewedWorker ==
    IF resp.op = "review" THEN requests[resp.id].worker ELSE reviews[resp.id].worker

\* C32: after a review creation, update or soft-deletion the rating.count of
\* the Worker reviewed is the number of its active reviews (0 when none is
\* left) and rating.average is their mean rounded to one decimal.
C32_RatingMatchesActiveReviews ==
    resp.op \in {"review", "review-update", "review-delete"}
      => LET w == ReviewedWorker
         IN  /\ workers[w].rating.count = CountRatings(reviews, w)
             /\ CountRatings(reviews, w) > 0
                   => workers[w].rating.average
                        = RoundTenths(SumRatings(reviews, w), CountRatings(reviews, w))

\* C39: customerRating and the customer_to_worker reviews of a request are
\* written only by the customer of that request: every such Review record
\* has that customer as its reviewer.
C39_RatedByCustomerOnly ==
    \A i \in 1..Len(reviews) :
        reviews[i].reviewType = "customer_to_worker"
          => reviews[i].reviewer = requests[reviews[i].serviceRequest].customer

\* C33: a verify-otp call succeeds only with the OTP that send-otp issued
\* last for that email, not yet verified and not older than ten minutes, and
\* once it has succeeded the same OTP is rejected for that email.
C33_VerifyOnlyFreshIssuedOtp ==
    [][accounts' # accounts =>
         \A e \in AuthEmails, otp \in OtpValues :
             (VerifyOtpCode(e, otp) = 200 /\ VerifyOtp(e, otp))
               => /\ otp = accounts[e].issued
                  /\ accounts[e].otpAge <= OtpLifetime
                  /\ VerifyOtpCode(e, otp)' = 400]_vars

\* an OTP has just been verified and is no longer stored, so that the same
\* OTP is now refused
C33_Witness ==
    /\ resp.op = "verify-otp"
    /\ accounts[resp.user].verified
    /\ accounts[resp.user].otp = NoOtp
    /\ VerifyOtpCode(resp.user, resp.arg) = 400

\* C34: reset-password changes a password only after a verify-otp for that
\* email has succeeded.
C34_ResetNeedsVerifiedOtp ==
    resp.op = "reset-password" => accounts[resp.user].verified

\* C35: a request whose status is in_progress or completed has a worker
\* assigned and has startedAt set.
C35_RunningHasWorkerAndStart ==
    \A r \in 1..Len(requests) :
        requests[r].status \in {"in_progress", "completed"}
          => requests[r].worker # NoWorker /\ requests[r].startedAt # 0

\* C36: a request whose status is completed, rejected or cancelled has no
\* Tracking record with isLive = true.
C36_TerminalHasNoLiveTracking ==
    \A t \in 1..Len(trackings) :
        requests[trackings[t].serviceRequest].status \in {"completed", "rejected", "cancelled"}
          => ~trackings[t].isLive

\* C37: the worker of every Tracking record is the worker assigned to its
\* service request.
C37_TrackingWorkerIsAssigned ==
    \A t \in 1..Len(trackings) :
        trackings[t].worker = requests[trackings[t].serviceRequest].worker

\* C38: a Tracking record with isLive = false has the status completed.
C38_EndedStaysCompleted ==
    \A t \in 1..Len(trackings) :
        ~trackings[t].isLive => trackings[t].status = "completed"

\* C40: the worker of every request that has one, and of every Tracking
\* record, is a stored Worker.
C40_WorkerReferencesResolve ==
    /\ \A r \in 1..Len(requests) :
          requests[r].worker # NoWorker => requests[r].worker \in DOMAIN workers
    /\ \A t \in 1..Len(trackings) : trackings[t].worker \in DOMAIN workers
====
